---- MODULE Spec2Model ----
(***************************************************************************)
(* Model of the spreadsheet batch transformations of globe_pim:            *)
(*   - concat_mmy.py: process_excel_data (body-type mapping, description    *)
(*     assembly, fan-out of one row into one record per populated           *)
(*     'EXO PART NUMBER' column);                                           *)
(*   - concatenate_description.py: process_excel_year_data (concatenation   *)
(*     of five columns, skipping empty cells).                              *)
(* Python strings are sequences of one-character strings, so that           *)
(* substring tests, str.replace, str.upper, str.strip and ' '.join are      *)
(* computed and not assumed.                                                *)
(***************************************************************************)
EXTENDS Integers, Sequences, FiniteSets, TLC

VARIABLES
    columns,            \* core columns present in the loaded table
    pc,                 \* position of process_excel_data
    idx,                \* number of rows df.iterrows() has yielded so far
    row,                \* the row last bound by the for statement (NoRow before)
    body_type_mapped,   \* local of the row loop
    description,        \* local of the row loop
    col,                \* position in exo_part_number_columns
    output_data,        \* the list of output records
    origin,             \* history: (row, column position) of each output record
    log,                \* kinds of logging.error messages emitted so far
    sink,               \* where the output table went: "none", "terminal", "file"
    written,            \* the table handed to the writer
    k,                  \* number of body_type_mapping pairs applied (stepped loop)
    ypc,                \* position of process_excel_year_data
    yinput,             \* the rows of the Excel file process_excel_year_data reads
    ydf                 \* its DataFrame

vars == <<columns, pc, idx, row, body_type_mapped,
          description, col, output_data, origin, log, sink, written, k,
          ypc, yinput, ydf>>

mmyVars == <<columns, pc, idx, row, body_type_mapped,
             description, col, output_data, origin, log, sink, written, k>>

yearVars == <<ypc, yinput, ydf>>

----------------------------------------------------------------------------
(* Bounds *)

MaxRows == 2

MaxFrags == 2

MaxYearRows == 2

----------------------------------------------------------------------------
(* Python strings *)

LowerCase == <<"a", "b", "c", "d", "e", "f", "g", "h", "i", "j", "k", "l", "m",
               "n", "o", "p", "q", "r", "s", "t", "u", "v", "w", "x", "y", "z">>

UpperCase == <<"A", "B", "C", "D", "E", "F", "G", "H", "I", "J", "K", "L", "M",
               "N", "O", "P", "Q", "R", "S", "T", "U", "V", "W", "X", "Y", "Z">>

Digits == <<"0", "1", "2", "3", "4", "5", "6", "7", "8", "9">>

UpperChar(c) ==
    IF \E i \in 1..Len(LowerCase) : LowerCase[i] = c
    THEN UpperCase[CHOOSE i \in 1..Len(LowerCase) : LowerCase[i] = c]
    ELSE c

\* str.upper()
Upper(s) == [i \in 1..Len(s) |-> UpperChar(s[i])]

\* old occurs in s at position i
OccursAt(s, old, i) ==
    /\ i >= 1
    /\ i + Len(old) - 1 <= Len(s)
    /\ \A j \in 1..Len(old) : s[i + j - 1] = old[j]

\* the `in` operator on strings
Contains(s, sub) == \E i \in 1..(Len(s) - Len(sub) + 1) : OccursAt(s, sub, i)

RECURSIVE ReplaceFrom(_, _, _, _)
ReplaceFrom(s, old, new, i) ==
    IF i > Len(s) THEN <<>>
    ELSE IF OccursAt(s, old, i)
         THEN new \o ReplaceFrom(s, old, new, i + Len(old))
         ELSE <<s[i]>> \o ReplaceFrom(s, old, new, i + 1)

\* str.replace(old, new) for a non-empty old: leftmost non-overlapping occurrences
Replace(s, old, new) == ReplaceFrom(s, old, new, 1)

RECURSIVE LStrip(_)
LStrip(s) == IF s # <<>> /\ Head(s) = " " THEN LStrip(Tail(s)) ELSE s

RECURSIVE RStrip(_)
RStrip(s) ==
    IF s # <<>> /\ s[Len(s)] = " " THEN RStrip(SubSeq(s, 1, Len(s) - 1)) ELSE s

\* str.strip()
Strip(s) == RStrip(LStrip(s))

\* filter(None, parts): the non-empty strings of parts, in order
NonEmptyParts(parts) == SelectSeq(parts, LAMBDA p : p # <<>>)

RECURSIVE JoinFrom(_, _, _)
JoinFrom(sep, parts, i) ==
    IF i > Len(parts) THEN <<>>
    ELSE IF i = Len(parts) THEN parts[i]
    ELSE parts[i] \o sep \o JoinFrom(sep, parts, i + 1)

\* sep.join(parts)
Join(sep, parts) == JoinFrom(sep, parts, 1)

RECURSIVE NatToStr(_)
NatToStr(n) ==
    IF n < 10 THEN <<Digits[n + 1]>>
    ELSE NatToStr(n \div 10) \o <<Digits[(n % 10) + 1]>>

\* str(n) for an int
IntToStr(n) == IF n < 0 THEN <<"-">> \o NatToStr(0 - n) ELSE NatToStr(n)

IsDigit(c) == \E i \in 1..Len(Digits) : Digits[i] = c

DigitValue(c) == (CHOOSE i \in 1..Len(Digits) : Digits[i] = c) - 1

RECURSIVE DigitsValue(_)
DigitsValue(s) ==
    IF s = <<>> THEN 0
    ELSE 10 * DigitsValue(SubSeq(s, 1, Len(s) - 1)) + DigitValue(s[Len(s)])

\* int(s) for a str: surrounding whitespace is ignored, one optional sign, then
\* decimal digits; anything else raises ValueError (ok = FALSE).
ParseIntStr(s) ==
    LET t    == Strip(s)
        neg  == t # <<>> /\ Head(t) = "-"
        sgn  == t # <<>> /\ Head(t) \in {"-", "+"}
        body == IF sgn THEN Tail(t) ELSE t
    IN  IF body # <<>> /\ \A i \in 1..Len(body) : IsDigit(body[i])
        THEN [ok |-> TRUE, n |-> IF neg THEN 0 - DigitsValue(body) ELSE DigitsValue(body)]
        ELSE [ok |-> FALSE, n |-> 0]

----------------------------------------------------------------------------
(* Cell values of a DataFrame *)

NaN == [t |-> "nan", s |-> <<>>, n |-> 0]

\* what Series.get returns for a column the table does not have
None == [t |-> "none", s |-> <<>>, n |-> 0]

\* marks a column the table does not have
Absent == [t |-> "absent", s |-> <<>>, n |-> 0]

StrV(s) == [t |-> "str", s |-> s, n |-> 0]

IntV(n) == [t |-> "int", s |-> <<>>, n |-> n]

EmptyStr == StrV(<<>>)

pd_isna(v) == v.t \in {"nan", "none"}

pd_notna(v) == ~pd_isna(v)

\* str(v)
PyStr(v) ==
    CASE v.t = "str"  -> v.s
      [] v.t = "int"  -> IntToStr(v.n)
      [] v.t = "nan"  -> <<"n", "a", "n">>
      [] v.t = "none" -> <<"N", "o", "n", "e">>

\* int(v): ok = FALSE stands for ValueError / TypeError
PyInt(v) ==
    CASE v.t = "int" -> [ok |-> TRUE, n |-> v.n]
      [] v.t = "str" -> ParseIntStr(v.s)
      [] OTHER       -> [ok |-> FALSE, n |-> 0]

----------------------------------------------------------------------------
(* concat_mmy.py: the substitution table and the body-type mapping *)

\* The dict, in insertion order (the order .items() yields).
body_type_mapping == <<
       <<<<"S", "E", "D", "A", "N">>, <<"S", "D", "N">>>>,
       <<<<"H", "A", "T", "C", "H", "B", "A", "C", "K">>, <<"H", "B", "K">>>>,
       <<<<"W", "A", "G", "O", "N">>, <<"W", "G", "N">>>>,
       <<<<"C", "O", "U", "P", "E">>, <<"C", "P", "E">>>>,
       <<<<"C", "A", "B", "R", "I", "O", "L", "E", "T">>, <<"C", "B", "L">>>>,
       <<<<"R", "O", "A", "D", "S", "T", "E", "R">>, <<"R", "D", "S">>>>,
       <<<<"S", "U", "V">>, <<"S", "U", "V">>>>,
       <<<<"S", "P", "O", "R", "T", "S", "B", "A", "C", "K">>, <<"S", "B", "K">>>>,
       <<<<"S", "P", "O", "R", "T", "S", " ", "B", "A", "C", "K">>, <<"S", "B", "K">>>>,
       <<<<"U", "T", "E">>, <<"U", "T", "E">>>>,
       <<<<"L", "I", "F", "T", "B", "A", "C", "K">>, <<"L", "B", "K">>>>,
       <<<<"L", "I", "F", "T", " ", "B", "A", "C", "K">>, <<"L", "B", "K">>>>,
       <<<<"V", "A", "N">>, <<"V", "A", "N">>>>,
       <<<<"C", "O", "N", "V", "E", "R", "T", "I", "B", "L", "E">>, <<"C", "N", "V">>>>,
       <<<<"C", "O", "N", "V">>, <<"C", "N", "V">>>>,
       <<<<"Q", "U", "A", "T", "T", "R", "O">>, <<"Q", "T", "R">>>>,
       <<<<"T", "R", "U", "C", "K">>, <<"T", "R", "K">>>>,
       <<<<"B", "U", "S">>, <<"B", "U", "S">>>>
    >>

\* The loop body with the membership test made on the running result.
MapStepCumulative(raw, cur, pair) ==
    IF Contains(cur, Upper(pair[1])) THEN Replace(cur, Upper(pair[1]), pair[2]) ELSE cur

\* One iteration of `for key, value in body_type_mapping.items()`: the test is
\* made on body_type_raw, the replacement on body_type_mapped.
MapStep(raw, cur, pair) ==
    IF Contains(raw, Upper(pair[1])) THEN Replace(cur, Upper(pair[1]), pair[2]) ELSE cur

RECURSIVE ApplyPairs(_, _, _, _)
ApplyPairs(raw, cur, table, i) ==
    IF i > Len(table) THEN cur
    ELSE ApplyPairs(raw, MapStep(raw, cur, table[i]), table, i + 1)

\* The whole loop over a table, starting from body_type_mapped = body_type_raw.
MapBodyTypeWith(raw, table) == ApplyPairs(raw, raw, table, 1)

Reverse(seq) == [i \in 1..Len(seq) |-> seq[Len(seq) + 1 - i]]

----------------------------------------------------------------------------
(* concat_mmy.py: the loaded table *)

CoreColumns == {"make", "model", "year_text", "body_type", "doors"}

RequiredColumns == {"make", "model", "year_text", "body_type"}

ExoMarker == <<"E", "X", "O", " ", "P", "A", "R", "T", " ", "N", "U", "M", "B", "E", "R">>

\* The columns of the table other than the core ones, in table order.
OtherColumns == <<
    <<"E", "X", "O", " ", "P", "A", "R", "T", " ", "N", "U", "M", "B", "E", "R", " ", "1">>,
    <<"N", "O", "T", "E", "S">>,
    <<"E", "X", "O", " ", "P", "A", "R", "T", " ", "N", "U", "M", "B", "E", "R", " ", "2">> >>

\* [col for col in df.columns if 'EXO PART NUMBER' in col], as positions in OtherColumns
exo_part_number_columns ==
    SelectSeq([i \in 1..Len(OtherColumns) |-> i],
              LAMBDA i : Contains(OtherColumns[i], ExoMarker))

Toyota == <<"T", "o", "y", "o", "t", "a">>

Corolla == <<"C", "o", "r", "o", "l", "l", "a">>

Hatchback == <<"H", "a", "t", "c", "h", "b", "a", "c", "k">>

ColumnValues(c) ==
    CASE c = "make"      -> {NaN, StrV(Toyota)}
      [] c = "model"     -> {NaN, StrV(Corolla)}
      [] c = "year_text" -> {NaN, StrV(<<"2", "0", "2", "0">>)}
      [] c = "body_type" -> {NaN, StrV(Hatchback)}
      [] c = "doors"     -> {NaN, IntV(4), StrV(<<"T", "B", "A">>)}

\* the values a cell of core column c can hold in a table with the columns cols
CellValues(cols, c) == IF c \in cols THEN ColumnValues(c) ELSE {Absent}

OtherCellValues(i) ==
    CASE i = 1 -> {NaN, StrV(<<"A", "1">>)}
      [] i = 2 -> {StrV(<<"n">>)}
      [] i = 3 -> {NaN, StrV(<<"B", "2">>)}

\* Series.get with the default fixed to ''.
RowGetEmptyDefault(r, c, default) == IF r[c].t = "absent" THEN EmptyStr ELSE r[c]

\* row.get(c, default)
RowGet(r, c, default) == IF r[c].t = "absent" THEN default ELSE r[c]

NoRow == [make |-> Absent, model |-> Absent, year_text |-> Absent,
          body_type |-> Absent, doors |-> Absent, cells |-> <<>>]

----------------------------------------------------------------------------
(* concat_mmy.py: the per-row computations of process_excel_data *)

\* body_type_raw = str(row.get('body_type', '')).upper()
BodyTypeRaw(r) == Upper(PyStr(RowGet(r, "body_type", EmptyStr)))

\* any(pd.isna(val) for val in [make, model, year_text, body_type_raw])
MissingCoreData(r) ==
    LET vals == << RowGet(r, "make", None), RowGet(r, "model", None),
                   RowGet(r, "year_text", None), StrV(BodyTypeRaw(r)) >>
    IN  \E i \in 1..Len(vals) : pd_isna(vals[i])

\* the loop over body_type_mapping.items()
MapBodyType(r) == MapBodyTypeWith(BodyTypeRaw(r), body_type_mapping)

\* str(v) if pd.notna(v) else ''
StrOrEmpty(v) == IF pd_notna(v) THEN PyStr(v) ELSE <<>>

\* the doors part of description_parts: zero or one string
DoorsParts(doors) ==
    IF pd_notna(doors) /\ PyInt(doors).ok
    THEN << IntToStr(PyInt(doors).n) \o <<"D", "R">> >>
    ELSE <<>>

\* A description with the body type placed before the door count.
DescriptionPartsBodyFirst(r, mapped) ==
    << StrOrEmpty(RowGet(r, "make", None)), StrOrEmpty(RowGet(r, "model", None)),
       StrOrEmpty(RowGet(r, "year_text", None)) >>
    \o <<mapped>> \o DoorsParts(RowGet(r, "doors", None))

\* description_parts, as built before the join
DescriptionParts(r, mapped) ==
    << StrOrEmpty(RowGet(r, "make", None)), StrOrEmpty(RowGet(r, "model", None)),
       StrOrEmpty(RowGet(r, "year_text", None)) >>
    \o DoorsParts(RowGet(r, "doors", None)) \o <<mapped>>

\* ' '.join(filter(None, description_parts)).strip()
MakeDescription(r, mapped) ==
    Strip(Join(<<" ">>, NonEmptyParts(DescriptionParts(r, mapped))))

\* `int(doors) if pd.notna(doors) and pd.notna(int(doors)) else ''` raises
\* ValueError when doors is present and int(doors) fails
RecordRaises(r) ==
    LET doors == RowGet(r, "doors", None) IN pd_notna(doors) /\ ~PyInt(doors).ok

ValueOrEmpty(v) == IF pd_notna(v) THEN v ELSE EmptyStr

\* the dict appended to output_data
OutputRecord(r, stockcode, mapped, desc) ==
    LET doors == RowGet(r, "doors", None) IN
    [ STOCKCODE   |-> stockcode,
      MAKE        |-> ValueOrEmpty(RowGet(r, "make", None)),
      MODEL       |-> ValueOrEmpty(RowGet(r, "model", None)),
      YEAR        |-> ValueOrEmpty(RowGet(r, "year_text", None)),
      DOORS       |-> IF pd_notna(doors) THEN IntV(PyInt(doors).n) ELSE EmptyStr,
      BODY_TYPE   |-> IF Strip(mapped) # <<>> THEN StrV(mapped) ELSE EmptyStr,
      DESCRIPTION |-> StrV(desc) ]

\* A list insertion at the front.
ListPrepend(list, x) == <<x>> \o list

\* list.append
ListAppend(list, x) == Append(list, x)

----------------------------------------------------------------------------
(* concat_mmy.py: process_excel_data as a state machine *)

yearIdle == ypc = "idle" /\ yinput = <<>> /\ ydf = <<>>

Init ==
    /\ columns \in SUBSET CoreColumns
    /\ pc = "load"
    /\ idx = 0
    /\ row = NoRow
    /\ body_type_mapped = <<>>
    /\ description = <<>>
    /\ col = 0
    /\ output_data = <<>>
    /\ origin = <<>>
    /\ log = {}
    /\ sink = "none"
    /\ written = <<>>
    /\ k = 0
    /\ yearIdle

\* pd.read_excel succeeds; output_data = [] and the column selection follow
LoadOk ==
    /\ pc = "load"
    /\ pc' = "iter"
    /\ UNCHANGED <<columns, idx, row, body_type_mapped, description, col,
                   output_data, origin, log, sink, written, k>>
    /\ UNCHANGED yearVars

\* pd.read_excel raises FileNotFoundError: the outer handler logs it
LoadFileNotFound ==
    /\ pc = "load"
    /\ log' = log \cup {"file_not_found"}
    /\ pc' = "exit"
    /\ UNCHANGED <<columns, idx, row, body_type_mapped, description, col,
                   output_data, origin, sink, written, k>>
    /\ UNCHANGED yearVars

\* df.iterrows() yields row r; the fields are fetched and the core-data test made
RowAccess(r) ==
    /\ pc = "iter"
    /\ idx < MaxRows
    /\ idx' = idx + 1
    /\ IF MissingCoreData(r)
       THEN pc' = "iter"          \* warning, then `continue`
       ELSE pc' = "map"
    /\ row' = r
    /\ UNCHANGED <<columns, body_type_mapped, description, col,
                   output_data, origin, log, sink, written, k>>
    /\ UNCHANGED yearVars

\* the body-type substitution loop
MapRow ==
    /\ pc = "map"
    /\ body_type_mapped' = MapBodyType(row)
    /\ pc' = "describe"
    /\ UNCHANGED <<columns, idx, row, description, col,
                   output_data, origin, log, sink, written, k>>
    /\ UNCHANGED yearVars

\* description_parts, the doors conversion and the join
DescribeRow ==
    /\ pc = "describe"
    /\ description' = MakeDescription(row, body_type_mapped)
    /\ col' = 1
    /\ pc' = "emit"
    /\ UNCHANGED <<columns, idx, row, body_type_mapped,
                   output_data, origin, log, sink, written, k>>
    /\ UNCHANGED yearVars

\* the column loop advances; after the last column the row loop continues
NextColumn ==
    /\ col' = col + 1
    /\ pc' = IF col = Len(exo_part_number_columns) THEN "iter" ELSE "emit"

\* one iteration of the column loop: the cell is empty
EmitSkipEmpty ==
    /\ pc = "emit"
    /\ pd_isna(row.cells[exo_part_number_columns[col]])
    /\ NextColumn
    /\ UNCHANGED <<columns, idx, row, body_type_mapped, description,
                   output_data, origin, log, sink, written, k>>
    /\ UNCHANGED yearVars

\* one iteration of the column loop: a record is appended
EmitRecord ==
    /\ pc = "emit"
    /\ pd_notna(row.cells[exo_part_number_columns[col]])
    /\ ~RecordRaises(row)
    /\ output_data' = ListAppend(output_data,
             OutputRecord(row, row.cells[exo_part_number_columns[col]],
                          body_type_mapped, description))
    /\ origin' = ListAppend(origin, <<idx, col>>)
    /\ NextColumn
    /\ UNCHANGED <<columns, idx, row, body_type_mapped, description,
                   log, sink, written, k>>
    /\ UNCHANGED yearVars

\* one iteration of the column loop: building the record raises; the error
\* leaves the row loop and the outer `except Exception` logs it
EmitRaises ==
    /\ pc = "emit"
    /\ pd_notna(row.cells[exo_part_number_columns[col]])
    /\ RecordRaises(row)
    /\ log' = log \cup {"unexpected_error"}
    /\ pc' = "exit"
    /\ UNCHANGED <<columns, idx, row, body_type_mapped, description, col,
                   output_data, origin, sink, written, k>>
    /\ UNCHANGED yearVars

\* the rows are exhausted: the output DataFrame is built and printed or saved
WriteOutput(toTerminal) ==
    /\ pc = "iter"
    /\ written' = output_data
    /\ sink' = IF toTerminal THEN "terminal" ELSE "file"
    /\ pc' = "exit"
    /\ UNCHANGED <<columns, idx, row, body_type_mapped, description, col,
                   output_data, origin, log, k>>
    /\ UNCHANGED yearVars

\* the make, model and year_text cells of one row: at most one of them empty
CoreTextCells ==
    { t \in CellValues(columns, "make") \X CellValues(columns, "model")
            \X CellValues(columns, "year_text") :
         \A i, j \in 1..3 : (t[i] = NaN /\ t[j] = NaN) => i = j }

\* the rows df.iterrows() can yield
RowInputs ==
    { [make |-> t[1], model |-> t[2], year_text |-> t[3], body_type |-> bt,
       doors |-> dr, cells |-> <<c1, c2, c3>>] :
        t \in CoreTextCells, bt \in CellValues(columns, "body_type"),
        dr \in CellValues(columns, "doors"),
        c1 \in OtherCellValues(1), c2 \in OtherCellValues(2), c3 \in OtherCellValues(3) }

Next ==
    \/ LoadOk
    \/ LoadFileNotFound
    \/ \E r \in RowInputs : RowAccess(r)
    \/ MapRow
    \/ DescribeRow
    \/ EmitSkipEmpty
    \/ EmitRecord
    \/ EmitRaises
    \/ \E toTerminal \in BOOLEAN : WriteOutput(toTerminal)

Spec == Init /\ [][Next]_vars

----------------------------------------------------------------------------
(* concat_mmy.py: the body-type substitution loop, one pair per step *)

\* Pieces of free text from which body-type cells are put together.
Fragments ==
    { <<"Q", "u", "a", "t", "t", "r", "o">>,
      <<"u", "c", "k">>,
      <<"C", "o", "n", "v", "e", "r", "t", "i", "b", "l", "e">>,
      <<"C", "o", "n", "v">>,
      <<"S", "p", "o", "r", "t", "s">>,
      <<" ">>,
      <<"b", "a", "c", "k">>,
      <<"S", "e", "d", "a", "n">>,
      <<"C", "a", "b", "r", "i", "o", "l", "e", "t">>,
      <<"4", " ", "D", "o", "o", "r">> }

RECURSIVE FragmentStrings(_)
FragmentStrings(n) ==
    IF n = 0 THEN { <<>> }
    ELSE LET shorter == FragmentStrings(n - 1)
         IN  shorter \cup { f \o s : f \in Fragments, s \in shorter }

\* body-type cells: up to MaxFrags fragments, concatenated
BodyTypeInputs == FragmentStrings(MaxFrags) \ { <<>> }

\* The pairs taken from the end of the table first.
PairAtReversed(i) == body_type_mapping[Len(body_type_mapping) + 1 - i]

\* the i-th (key, value) that body_type_mapping.items() yields
PairAt(i) == body_type_mapping[i]

MapInit ==
    /\ columns = CoreColumns
    /\ pc = "pairs"
    /\ idx = 1
    /\ \E bt \in BodyTypeInputs :
          row = [make |-> StrV(Toyota), model |-> StrV(Corolla),
                 year_text |-> StrV(<<"2", "0", "2", "0">>), body_type |-> StrV(bt),
                 doors |-> IntV(4), cells |-> <<NaN, StrV(<<"n">>), NaN>>]
    /\ body_type_mapped = BodyTypeRaw(row)     \* body_type_mapped = body_type_raw
    /\ description = <<>>
    /\ col = 0
    /\ output_data = <<>>
    /\ origin = <<>>
    /\ log = {}
    /\ sink = "none"
    /\ written = <<>>
    /\ k = 0
    /\ yearIdle

\* one iteration of `for key, value in body_type_mapping.items()`
MapPair ==
    /\ pc = "pairs"
    /\ k < Len(body_type_mapping)
    /\ body_type_mapped' = MapStep(BodyTypeRaw(row), body_type_mapped, PairAt(k + 1))
    /\ k' = k + 1
    /\ UNCHANGED <<columns, pc, idx, row, description, col,
                   output_data, origin, log, sink, written>>
    /\ UNCHANGED yearVars

MapNext == MapPair

SpecMap == MapInit /\ [][MapNext]_vars

----------------------------------------------------------------------------
(* concatenate_description.py: process_excel_year_data *)

required_columns == << "X_veh_manufacturer", "X_manufacturer_model", "X_body_type",
                       "X_year", "Description" >>

YearColumnValues(c) ==
    CASE c = "X_veh_manufacturer"   -> {NaN, StrV(<<"F", "o", "r", "d">>)}
      [] c = "X_manufacturer_model" -> {NaN, StrV(<<"F", "o", "c", "u", "s">>)}
      [] c = "X_body_type"          -> {NaN, StrV(<<"H", "a", "t", "c", "h">>)}
      [] c = "X_year"               -> {NaN, StrV(<<"2", "0", "2", "0">>), StrV(<<" ", "0", "5", "/", "2", "0", "2", "0", " ", "-", " ">>)}
      [] c = "Description"          -> {NaN, StrV(<<"K", "i", "t">>),
                                        StrV(<<"R", "e", "p", "l", "a", "c", "e", "m", "e", "n", "t", " ", "h", "e", "a", "d", "l", "a", "m", "p", " ", "a", "s", "s", "e", "m", "b", "l", "y", " ", "l", "e", "f", "t", " ", "h", "a", "n", "d", " ", "s", "i", "d", "e", " ", "w", "i", "t", "h", " ", "b", "u", "l", "b", "s">>)}

YearRowInputs ==
    { [X_veh_manufacturer |-> a, X_manufacturer_model |-> b, X_body_type |-> c,
       X_year |-> d, Description |-> e, Concatenated_Data |-> NaN,
       Concatenated_Data_Length |-> NaN, Exceeds_60_Characters |-> FALSE] :
        a \in YearColumnValues("X_veh_manufacturer"),
        b \in YearColumnValues("X_manufacturer_model"),
        c \in YearColumnValues("X_body_type"),
        d \in YearColumnValues("X_year"),
        e \in YearColumnValues("Description") }

RECURSIVE YearTables(_)
YearTables(n) ==
    IF n = 0 THEN { <<>> }
    ELSE LET shorter == YearTables(n - 1)
         IN  shorter \cup { Append(tbl, r) : tbl \in shorter, r \in YearRowInputs }

\* Series.astype(str), one element: every value, NaN included, becomes its str()
AsTypeStr(v) == StrV(PyStr(v))

\* .str.strip(), one element
StrStrip(v) == IF v.t = "str" THEN StrV(Strip(v.s)) ELSE v

\* concatenate_with_skipping(row)
concatenate_with_skipping(r) ==
    LET present == SelectSeq(required_columns, LAMBDA c : pd_notna(r[c]))
    IN  Join(<<" ">>, [i \in 1..Len(present) |-> PyStr(r[present[i]])])

mmyIdle ==
    /\ columns = {}
    /\ pc = "idle"
    /\ idx = 0
    /\ row = NoRow
    /\ body_type_mapped = <<>>
    /\ description = <<>>
    /\ col = 0
    /\ output_data = <<>>
    /\ origin = <<>>
    /\ log = {}
    /\ sink = "none"
    /\ written = <<>>
    /\ k = 0

YearInit ==
    /\ ypc = "start"
    /\ yinput = <<>>
    /\ ydf = <<>>
    /\ mmyIdle

\* os.path.exists(input_file) is false: FileNotFoundError, printed
YearFileNotFound ==
    /\ ypc = "start"
    /\ ypc' = "error_file_not_found"
    /\ UNCHANGED <<yinput, ydf>>
    /\ UNCHANGED mmyVars

\* the path does not end in .xlsx: ValueError, printed
YearNotExcel ==
    /\ ypc = "start"
    /\ ypc' = "error_not_xlsx"
    /\ UNCHANGED <<yinput, ydf>>
    /\ UNCHANGED mmyVars

\* a required column is not in df.columns: ValueError, printed
YearMissingColumn ==
    /\ ypc = "start"
    /\ ypc' = "error_missing_column"
    /\ UNCHANGED <<yinput, ydf>>
    /\ UNCHANGED mmyVars

\* pd.read_excel and the column check succeed
YearLoad(tbl) ==
    /\ ypc = "start"
    /\ yinput' = tbl
    /\ ydf' = tbl
    /\ ypc' = "loaded"
    /\ UNCHANGED mmyVars

\* df["X_year"] = df["X_year"].astype(str).str.strip()
YearStrip ==
    /\ ypc = "loaded"
    /\ ydf' = [i \in 1..Len(ydf) |->
                 [ydf[i] EXCEPT !.X_year = StrStrip(AsTypeStr(@))]]
    /\ ypc' = "stripped"
    /\ UNCHANGED yinput
    /\ UNCHANGED mmyVars

\* df["Concatenated_Data"] = df.apply(concatenate_with_skipping, axis=1)
YearConcatenate ==
    /\ ypc = "stripped"
    /\ ydf' = [i \in 1..Len(ydf) |->
                 [ydf[i] EXCEPT !.Concatenated_Data =
                                   StrV(concatenate_with_skipping(ydf[i]))]]
    /\ ypc' = "concatenated"
    /\ UNCHANGED yinput
    /\ UNCHANGED mmyVars

\* the length column and the more-than-60-characters flag
YearFlag ==
    /\ ypc = "concatenated"
    /\ ydf' = [i \in 1..Len(ydf) |->
                 [ydf[i] EXCEPT
                    !.Concatenated_Data_Length = IntV(Len(ydf[i].Concatenated_Data.s)),
                    !.Exceeds_60_Characters = Len(ydf[i].Concatenated_Data.s) > 60]]
    /\ ypc' = "flagged"
    /\ UNCHANGED yinput
    /\ UNCHANGED mmyVars

\* df.to_csv(output_file, index=False)
YearSave ==
    /\ ypc = "flagged"
    /\ ypc' = "saved"
    /\ UNCHANGED <<yinput, ydf>>
    /\ UNCHANGED mmyVars

YearNext ==
    \/ YearFileNotFound
    \/ YearNotExcel
    \/ YearMissingColumn
    \/ \E tbl \in YearTables(MaxYearRows) : YearLoad(tbl)
    \/ YearStrip
    \/ YearConcatenate
    \/ YearFlag
    \/ YearSave

SpecYear == YearInit /\ [][YearNext]_vars

----------------------------------------------------------------------------
(* Properties of process_excel_data *)

FieldMissing(v) == v.t \in {"nan", "absent"}

AnyCoreFieldMissing(r) == \E c \in RequiredColumns : FieldMissing(r[c])

CoreAllPresent(r) == \A c \in RequiredColumns : ~FieldMissing(r[c])

InRow == pc \in {"map", "describe", "emit"}

\* positions in exo_part_number_columns whose cell of r is populated
PopulatedColumns(r) ==
    { i \in 1..Len(exo_part_number_columns) :
         ~FieldMissing(r.cells[exo_part_number_columns[i]]) }

\* indices of the output records that came from input row i
RecordsOfRow(org, i) == { j \in 1..Len(org) : org[j][1] = i }

DoorsPresentUnparseable(r) ==
    /\ r.doors.t = "str"
    /\ ~ParseIntStr(r.doors.s).ok

\* C1: every row in which make, model, year_text or body_type is absent/empty (each
\* one taken separately, body_type alone included) is skipped and contributes no
\* output record.
C1_MissingCoreRowSkipped ==
    (InRow /\ columns = CoreColumns /\ AnyCoreFieldMissing(row))
        => RecordsOfRow(origin, idx) = {}

\* C2: a row with all core fields present, a doors value that does not parse as an
\* integer, and at least one populated part-number column is not skipped: when its
\* column loop ends it has yielded one record per populated column, each with a
\* blank DOORS field and a description without the "DR" fragment.
C2_UnparseableDoorsRowEmitted ==
    [][ ( /\ pc = "emit"
          /\ pc' # "emit"
          /\ CoreAllPresent(row)
          /\ DoorsPresentUnparseable(row)
          /\ PopulatedColumns(row) # {} )
        => ( /\ pc' = "iter"
             /\ Cardinality(RecordsOfRow(origin', idx)) = Cardinality(PopulatedColumns(row))
             /\ \A j \in RecordsOfRow(origin', idx) :
                   /\ output_data'[j].DOORS = EmptyStr
                   /\ ~Contains(output_data'[j].DESCRIPTION.s, <<"D", "R">>) ) ]_vars

\* C3: row-level failures are isolated per row: once rows are being iterated, no
\* anomaly of a row ends the run; the run ends only by handing every record emitted
\* to the writer, and only a setup-phase error is reported as terminating it.
C3_RowFailuresIsolated ==
    /\ ("unexpected_error" \in log) => idx = 0
    /\ (pc = "exit" /\ idx >= 1) => (sink # "none" /\ written = output_data)

\* C4: for every row with all core fields present, the number of records produced
\* for the row equals the number of its populated part-number columns, each record
\* carries that column's value as STOCKCODE, and all carry the row's description.
C4_OneRecordPerPopulatedColumn ==
    [][ ( /\ pc = "emit"
          /\ pc' # "emit"
          /\ CoreAllPresent(row) )
        => ( /\ Cardinality(RecordsOfRow(origin', idx)) = Cardinality(PopulatedColumns(row))
             /\ \A j \in RecordsOfRow(origin', idx) :
                   /\ origin'[j][2] \in PopulatedColumns(row)
                   /\ output_data'[j].STOCKCODE =
                         row.cells[exo_part_number_columns[origin'[j][2]]]
                   /\ output_data'[j].DESCRIPTION = StrV(description) ) ]_vars

ToyotaCorolla2020FourDoorHatchback(r) ==
    /\ r.make = StrV(Toyota)
    /\ r.model = StrV(Corolla)
    /\ r.year_text = StrV(<<"2", "0", "2", "0">>)
    /\ r.doors = IntV(4)
    /\ r.body_type = StrV(Hatchback)

\* the door fragment as the claim words it: "{N}DR" iff doors is present and parses
DoorFragmentClaimed(r) ==
    IF r.doors.t = "int" THEN << IntToStr(r.doors.n) \o <<"D", "R">> >>
    ELSE IF r.doors.t = "str" /\ ParseIntStr(r.doors.s).ok
         THEN << IntToStr(ParseIntStr(r.doors.s).n) \o <<"D", "R">> >>
         ELSE <<>>

\* C5: for a row with all core fields present the description is the single-space
\* join, in the order make, model, year, door fragment, mapped body type, of the
\* non-empty parts, trimmed; the door fragment is "{N}DR" exactly when doors is
\* present and parses as the integer N. Toyota / Corolla / 2020 / 4 / Hatchback
\* gives "Toyota Corolla 2020 4DR HBK".
C5_DescriptionIsOrderedJoin ==
    (pc = "emit" /\ CoreAllPresent(row)) =>
        /\ description =
              Strip(Join(<<" ">>,
                 NonEmptyParts(<< row.make.s, row.model.s, row.year_text.s >>
                               \o DoorFragmentClaimed(row)
                               \o << body_type_mapped >>)))
        /\ Contains(description, <<"D", "R", " ">>) <=> DoorFragmentClaimed(row) # <<>>
        /\ ToyotaCorolla2020FourDoorHatchback(row) =>
              description = <<"T", "o", "y", "o", "t", "a", " ", "C", "o", "r", "o", "l", "l", "a", " ", "2", "0", "2", "0", " ", "4", "D", "R", " ", "H", "B", "K">>

C5_Witness ==
    /\ pc = "emit"
    /\ ToyotaCorolla2020FourDoorHatchback(row)
    /\ description = <<"T", "o", "y", "o", "t", "a", " ", "C", "o", "r", "o", "l", "l", "a", " ", "2", "0", "2", "0", " ", "4", "D", "R", " ", "H", "B", "K">>

\* C6: output records are in row-then-column order: a record of an earlier row
\* precedes a record of a later row, records of one row follow the order of the
\* part-number columns, no record appears twice, and the table handed to the
\* writer is exactly the list of records emitted.
C6_RowThenColumnOrder ==
    /\ Len(origin) = Len(output_data)
    /\ \A i, j \in 1..Len(origin) :
          i < j => \/ origin[i][1] < origin[j][1]
                   \/ origin[i][1] = origin[j][1] /\ origin[i][2] < origin[j][2]
    /\ \A j \in 1..Len(output_data) :
          output_data[j].STOCKCODE \in
              OtherCellValues(exo_part_number_columns[origin[j][2]]) \ {NaN}
    /\ (pc = "exit" /\ sink # "none") => written = output_data

C6_Witness ==
    /\ pc = "exit"
    /\ sink # "none"
    /\ Len(written) >= 3
    /\ origin[1][1] = 1
    /\ origin[Len(origin)][1] = 2
    /\ written[1].STOCKCODE # written[2].STOCKCODE

----------------------------------------------------------------------------
(* Properties of the body-type substitution loop (SpecMap) *)

\* C9 as stated: each pair's pattern is tested against the current, possibly
\* already substituted string, so a pair whose pattern appears only because of text
\* an earlier replacement inserted is still applied.
C9_TestOnCumulativeResult ==
    [][ (pc = "pairs" /\ k' = k + 1) =>
          LET pattern     == Upper(PairAt(k')[1])
              replacement == PairAt(k')[2]
          IN  Contains(body_type_mapped, pattern) =>
                 body_type_mapped' = Replace(body_type_mapped, pattern, replacement) ]_vars

\* C9 amended: each pair's pattern is tested against the original upper-cased
\* body type, not the running result: when the pattern occurs in the original, all
\* its occurrences in the running result are replaced; when it does not, the pair
\* changes nothing, also when an earlier replacement made the pattern appear in
\* the running result.
C9_TestOnOriginalInput ==
    [][ (pc = "pairs" /\ k' = k + 1) =>
          LET pattern     == Upper(PairAt(k')[1])
              replacement == PairAt(k')[2]
              original    == Upper(row.body_type.s)
          IN  IF Contains(original, pattern)
              THEN body_type_mapped' = Replace(body_type_mapped, pattern, replacement)
              ELSE body_type_mapped' = body_type_mapped ]_vars

\* a pair has just left alone a pattern that only an earlier replacement created
C9_Witness ==
    /\ pc = "pairs"
    /\ k >= 1
    /\ ~Contains(Upper(row.body_type.s), Upper(PairAt(k)[1]))
    /\ Contains(body_type_mapped, Upper(PairAt(k)[1]))
    /\ PairAt(k)[1] # PairAt(k)[2]

Convertible == <<"C", "o", "n", "v", "e", "r", "t", "i", "b", "l", "e">>

\* C10: the substitution depends on the order of the pairs: for the body type
\* "Convertible" the code, which applies the pairs in declaration order, ends with
\* "CNV", while the same pairs applied in reverse order (CONV before CONVERTIBLE)
\* end with a different string.
C10_OrderDependent ==
    (pc = "pairs" /\ k = Len(body_type_mapping) /\ row.body_type = StrV(Convertible)) =>
        /\ body_type_mapped = <<"C", "N", "V">>
        /\ MapBodyTypeWith(BodyTypeRaw(row), Reverse(body_type_mapping)) # body_type_mapped
        /\ MapBodyTypeWith(BodyTypeRaw(row), Reverse(body_type_mapping))
              = <<"C", "N", "V", "E", "R", "T", "I", "B", "L", "E">>

C10_Witness ==
    /\ pc = "pairs"
    /\ k = Len(body_type_mapping)
    /\ row.body_type = StrV(Convertible)
    /\ body_type_mapped # MapBodyTypeWith(BodyTypeRaw(row), Reverse(body_type_mapping))

----------------------------------------------------------------------------
(* Properties of process_excel_year_data (SpecYear) *)

\* the cells of input row r that are not empty, as text, in required_columns order
\* (X_year without its surrounding whitespace)
NonEmptyCellTexts(r) ==
    LET present == SelectSeq(required_columns, LAMBDA c : r[c].t # "nan")
    IN  [i \in 1..Len(present) |->
            IF present[i] = "X_year" THEN Strip(PyStr(r[present[i]]))
            ELSE PyStr(r[present[i]])]

\* C8: for every row, Concatenated_Data is the single-space join, in the order
\* X_veh_manufacturer, X_manufacturer_model, X_body_type, X_year, Description, of
\* exactly the cells that are non-empty in the input; an empty cell, X_year
\* included, contributes no text.
C8_EmptyCellsContributeNothing ==
    (ypc \in {"concatenated", "flagged", "saved"}) =>
        \A i \in 1..Len(ydf) :
            ydf[i].Concatenated_Data = StrV(Join(<<" ">>, NonEmptyCellTexts(yinput[i])))

====
